---- MODULE Spec2Model ----
(***************************************************************************)
(* Position reconciliation of MultiMarketTrader                            *)
(* (src/auto_trade_all_markets.py).                                        *)
(*                                                                         *)
(* Representation.  Python floats are modelled in fixed point:             *)
(*   - an exposure ratio x is the integer x * One  (One = 1.0, so the      *)
(*     tolerance 0.001 of the scheduled checks is 1);                      *)
(*   - a price p is the integer p * PriceScale (hundredths).               *)
(* An Optional[float] is a record [kind, v] with kind "None", "num" or     *)
(* "nan" (float('nan'), which float() accepts from the service's reply).   *)
(* Transition names are the spec's names for the strings that              *)
(* get_position_action returns (lines 730-760, in source order): OpenLong, *)
(* OpenShort, Unchanged; CloseLong, FlipLongToShort, IncreaseLong,         *)
(* DecreaseLong, Unchanged; CloseShort, FlipShortToLong, IncreaseShort,    *)
(* DecreaseShort, Unchanged.                                               *)
(***************************************************************************)
EXTENDS Integers, Sequences, FiniteSets, TLC

\* ------------------------------------------------------------------------
\* Representation of floats
\* ------------------------------------------------------------------------

\* the float 1.0 of "max(-1.0, min(1.0, target_position))", in thousandths
One == 1000

\* prices are held in hundredths: float(history_data['close']) * 100
PriceScale == 100

\* a tolerance of half the full exposure
Tolerance_coarse == One \div 2

\* the tolerance 0.001 of "abs(target_position - old_position) > 0.001"
Tolerance == 1

\* last value of the wall clock read by datetime.now() that the model tracks
MaxClock == 1

None == [kind |-> "None", v |-> 0]

NaN == [kind |-> "nan", v |-> 0]

Num(x) == [kind |-> "num", v |-> x]

Abs(x) == IF x < 0 THEN -x ELSE x

\* Python's min(a, b) for floats: b is returned only when b < a, and every
\* comparison with nan is False
PyMin(a, b) == IF b.kind = "num" /\ a.kind = "num" /\ b.v < a.v THEN b ELSE a

\* Python's max(a, b) for floats: b is returned only when b > a
PyMax(a, b) == IF b.kind = "num" /\ a.kind = "num" /\ b.v > a.v THEN b ELSE a

\* ------------------------------------------------------------------------
\* Configuration
\* ------------------------------------------------------------------------

\* MultiMarketTrader.init_market_config
init_market_config ==
    [ cnstock  |-> [allow_short |-> FALSE, leverage |-> 1,  min_lots |-> 100],
      futures  |-> [allow_short |-> TRUE,  leverage |-> 10, min_lots |-> 1],
      forex    |-> [allow_short |-> TRUE,  leverage |-> 10, min_lots |-> 1000],
      cnoption |-> [allow_short |-> TRUE,  leverage |-> 10, min_lots |-> 1],
      gold     |-> [allow_short |-> TRUE,  leverage |-> 1,  min_lots |-> 1],
      cnindex  |-> [allow_short |-> FALSE, leverage |-> 1,  min_lots |-> 1],
      cbond    |-> [allow_short |-> FALSE, leverage |-> 1,  min_lots |-> 1],
      fund     |-> [allow_short |-> FALSE, leverage |-> 1,  min_lots |-> 1] ]

\* SymbolInfo(symbol, market_type, name, allow_short, leverage, capital)
SymbolInfo(symbol, market_type, name, allow_short, leverage, capital) ==
    [ symbol |-> symbol, market_type |-> market_type, name |-> name,
      allow_short |-> allow_short, leverage |-> leverage,
      per_symbol_capital |-> capital ]

\* market_cfg = self.market_config.get(symbol_info.market_type.value, {});
\* min_lots = market_cfg.get('min_lots', 1)
min_lots_of(symbol_info) ==
    IF symbol_info.market_type \in DOMAIN init_market_config
    THEN init_market_config[symbol_info.market_type].min_lots
    ELSE 1

\* a keyword argument that was passed, and one that was left out
Given(x) == [given |-> TRUE, v |-> x]
UnsetBool == [given |-> FALSE, v |-> FALSE]
UnsetInt == [given |-> FALSE, v |-> 0]

\* SymbolInfo.__init__ with its keyword defaults allow_short=False,
\* leverage=1, per_symbol_capital=None; the capital of the result is None
\* or a number
SymbolInfo_init(symbol, market_type, name, allow_short, leverage, per_symbol_capital) ==
    [ symbol |-> symbol, market_type |-> market_type, name |-> name,
      allow_short |-> IF allow_short.given THEN allow_short.v ELSE FALSE,
      leverage |-> IF leverage.given THEN leverage.v ELSE 1,
      per_symbol_capital |->
          IF per_symbol_capital.given THEN Num(per_symbol_capital.v)
          ELSE None ]

\* sum() over the capitals of a list none of which is None
RECURSIVE SumCapital(_)
SumCapital(symbols) ==
    IF symbols = << >> THEN 0
    ELSE Head(symbols).per_symbol_capital.v + SumCapital(Tail(symbols))

\* MultiMarketTrader.__init__ up to the market configuration: sum() adds
\* the capitals as they were passed, so a None capital raises TypeError
\* there, before the loop that would replace it by the default; the market
\* types of the symbols are not looked at
trader_init(symbols, per_symbol_capital) ==
    IF \E i \in 1..Len(symbols) : symbols[i].per_symbol_capital.kind = "None"
    THEN [ raised |-> TRUE, total_account_value |-> 0, symbols |-> << >> ]
    ELSE [ raised |-> FALSE,
           total_account_value |-> SumCapital(symbols),
           symbols |->
               [ i \in 1..Len(symbols) |->
                   SymbolInfo(symbols[i].symbol, symbols[i].market_type,
                              symbols[i].name, symbols[i].allow_short,
                              symbols[i].leverage,
                              IF symbols[i].per_symbol_capital.kind = "None"
                              THEN per_symbol_capital
                              ELSE symbols[i].per_symbol_capital.v) ] ]

\* the SYMBOLS list handed to the trader: a long-only A share and a
\* leveraged future that may be shorted
SYMBOLS ==
    << SymbolInfo("000001.SZ", "cnstock", "PingAn", FALSE, 1, 100000),
       SymbolInfo("ICL1.CFX", "futures", "CSI500", TRUE, 10, 50000) >>

NumSymbols == Len(SYMBOLS)

SymbolKeys == { SYMBOLS[i].symbol : i \in 1..NumSymbols }

\* ------------------------------------------------------------------------
\* Replies of the external service (inputs of the model)
\* ------------------------------------------------------------------------

\* exposure values the service may put in the "position" field, per symbol
PositionValues ==
    << { Num(-300), Num(0), Num(1), Num(500) },
       { Num(-1500), Num(0), Num(1500) } >>

\* a reply to /predict/ or /history/ as the fetchers see it:
\*   status "neterr"    requests raised (timeout, connection, HTTP status)
\*   status "fail"      the body has no truthy 'success'
\*   status "success"   with has_position FALSE: the position field (or the
\*                      data row) is missing
Replies(i) ==
    { [status |-> "neterr", has_position |-> FALSE, position |-> None],
      [status |-> "fail", has_position |-> FALSE, position |-> None],
      [status |-> "success", has_position |-> FALSE, position |-> None] }
    \cup { [status |-> "success", has_position |-> TRUE, position |-> p] :
              p \in PositionValues[i] }

\* 'close' values of the history row get_current_price reads, per symbol
CloseValues ==
    << { Num(100), Num(1000), NaN }, { Num(0), NaN } >>

\* what get_history_position_data hands to get_current_price:
\*   row "none"    no row with a 'close' (error, no list, empty list, or a
\*                 row without the field)
\*   row "bad"     a row whose 'close' float() rejects
\*   row "close"   a row with a 'close' float() accepts
PriceReplies(i) ==
    { [row |-> "none", close |-> None], [row |-> "bad", close |-> None] }
    \cup { [row |-> "close", close |-> c] : c \in CloseValues[i] }

\* ------------------------------------------------------------------------
\* Fetchers
\* ------------------------------------------------------------------------

\* MultiMarketTrader.get_realtime_position: float(data.get('position', 0))
get_realtime_position(reply) ==
    IF reply.status = "success"
    THEN IF reply.has_position THEN reply.position ELSE Num(0)
    ELSE None

\* MultiMarketTrader.get_history_position; has_date is whether
\* self.latest_trading_date was ever assigned (an AttributeError is caught
\* by the fetcher's "except Exception" and yields None)
get_history_position(reply, has_date) ==
    IF ~has_date THEN None
    ELSE IF reply.status = "success"
    THEN IF reply.has_position THEN reply.position ELSE None
    ELSE None

\* default_prices.get(symbol_info.symbol, 10.0)
default_prices(symbol) ==
    CASE symbol = "000001.SZ" -> 1162
      [] symbol = "ICL1.CFX" -> 708320
      [] OTHER -> 1000

\* MultiMarketTrader.get_current_price
get_current_price(symbol_info, preply, has_date) ==
    IF has_date /\ preply.row = "close" THEN preply.close
    ELSE IF has_date /\ preply.row = "bad" THEN None
    ELSE Num(default_prices(symbol_info.symbol))

\* ------------------------------------------------------------------------
\* Sizing and classification
\* ------------------------------------------------------------------------

\* calculate_target_units without the rounding to whole lots
calculate_target_units_no_lots(symbol_info, target_position, current_price) ==
    IF current_price.kind = "None"
       \/ (current_price.kind = "num" /\ current_price.v <= 0)
    THEN [raised |-> FALSE, units |-> 0]
    ELSE IF current_price.kind = "nan"
    THEN [raised |-> TRUE, units |-> 0]
    ELSE
      LET effective_capital ==
              symbol_info.per_symbol_capital * symbol_info.leverage
          target_value == effective_capital * target_position
          shares == Abs(target_value)
                      \div ((One \div PriceScale) * current_price.v)
      IN  IF target_position >= 0
          THEN [raised |-> FALSE, units |-> shares]
          ELSE [raised |-> FALSE, units |-> -shares]

\* calculate_target_units sizing with the leverage of the market table
\* instead of the instrument's own
calculate_target_units_market_leverage(symbol_info, target_position, current_price) ==
    IF current_price.kind = "None"
       \/ (current_price.kind = "num" /\ current_price.v <= 0)
    THEN [raised |-> FALSE, units |-> 0]
    ELSE IF current_price.kind = "nan"
    THEN [raised |-> TRUE, units |-> 0]
    ELSE
      LET market_cfg == init_market_config[symbol_info.market_type]
          min_lots == min_lots_of(symbol_info)
          effective_capital ==
              symbol_info.per_symbol_capital * market_cfg.leverage
          target_value == effective_capital * target_position
          lots == Abs(target_value)
                    \div ((One \div PriceScale) * current_price.v * min_lots)
      IN  IF target_position >= 0
          THEN [raised |-> FALSE, units |-> lots * min_lots]
          ELSE [raised |-> FALSE, units |-> -(lots * min_lots)]

\* calculate_target_units rounding a started lot up instead of down
calculate_target_units_round_up(symbol_info, target_position, current_price) ==
    IF current_price.kind = "None"
       \/ (current_price.kind = "num" /\ current_price.v <= 0)
    THEN [raised |-> FALSE, units |-> 0]
    ELSE IF current_price.kind = "nan"
    THEN [raised |-> TRUE, units |-> 0]
    ELSE
      LET min_lots == min_lots_of(symbol_info)
          effective_capital ==
              symbol_info.per_symbol_capital * symbol_info.leverage
          target_value == effective_capital * target_position
          divisor == (One \div PriceScale) * current_price.v * min_lots
          lots == (Abs(target_value) + divisor - 1) \div divisor
      IN  IF target_position >= 0
          THEN [raised |-> FALSE, units |-> lots * min_lots]
          ELSE [raised |-> FALSE, units |-> -(lots * min_lots)]

\* calculate_target_units sizing the unused fraction 1 - |target_position|
\* of the capital instead of the target fraction
calculate_target_units_remaining(symbol_info, target_position, current_price) ==
    IF current_price.kind = "None"
       \/ (current_price.kind = "num" /\ current_price.v <= 0)
    THEN [raised |-> FALSE, units |-> 0]
    ELSE IF current_price.kind = "nan"
    THEN [raised |-> TRUE, units |-> 0]
    ELSE
      LET min_lots == min_lots_of(symbol_info)
          effective_capital ==
              symbol_info.per_symbol_capital * symbol_info.leverage
          target_value == effective_capital * (One - Abs(target_position))
          lots == Abs(target_value)
                    \div ((One \div PriceScale) * current_price.v * min_lots)
      IN  IF target_position >= 0
          THEN [raised |-> FALSE, units |-> lots * min_lots]
          ELSE [raised |-> FALSE, units |-> -(lots * min_lots)]

\* calculate_target_units with the long and the short branch exchanged
calculate_target_units_swapped(symbol_info, target_position, current_price) ==
    IF current_price.kind = "None"
       \/ (current_price.kind = "num" /\ current_price.v <= 0)
    THEN [raised |-> FALSE, units |-> 0]
    ELSE IF current_price.kind = "nan"
    THEN [raised |-> TRUE, units |-> 0]
    ELSE
      LET min_lots == min_lots_of(symbol_info)
          effective_capital ==
              symbol_info.per_symbol_capital * symbol_info.leverage
          target_value == effective_capital * target_position
          lots == Abs(target_value)
                    \div ((One \div PriceScale) * current_price.v * min_lots)
      IN  IF target_position >= 0
          THEN [raised |-> FALSE, units |-> -(lots * min_lots)]
          ELSE [raised |-> FALSE, units |-> lots * min_lots]

\* calculate_target_units without the minus sign of the short branch
calculate_target_units_unsigned(symbol_info, target_position, current_price) ==
    IF current_price.kind = "None"
       \/ (current_price.kind = "num" /\ current_price.v <= 0)
    THEN [raised |-> FALSE, units |-> 0]
    ELSE IF current_price.kind = "nan"
    THEN [raised |-> TRUE, units |-> 0]
    ELSE
      LET min_lots == min_lots_of(symbol_info)
          effective_capital ==
              symbol_info.per_symbol_capital * symbol_info.leverage
          target_value == effective_capital * target_position
          lots == Abs(target_value)
                    \div ((One \div PriceScale) * current_price.v * min_lots)
      IN  [raised |-> FALSE, units |-> lots * min_lots]

\* MultiMarketTrader.calculate_target_units; raised is the ValueError of
\* int(nan)
calculate_target_units(symbol_info, target_position, current_price) ==
    IF current_price.kind = "None"
       \/ (current_price.kind = "num" /\ current_price.v <= 0)
    THEN [raised |-> FALSE, units |-> 0]
    ELSE IF current_price.kind = "nan"
    THEN [raised |-> TRUE, units |-> 0]
    ELSE
      LET min_lots == min_lots_of(symbol_info)
          allocated_capital == symbol_info.per_symbol_capital
          effective_capital == allocated_capital * symbol_info.leverage
          target_value == effective_capital * target_position
          lots == Abs(target_value)
                    \div ((One \div PriceScale) * current_price.v * min_lots)
      IN  IF target_position >= 0
          THEN [raised |-> FALSE, units |-> lots * min_lots]
          ELSE [raised |-> FALSE, units |-> -(lots * min_lots)]

\* get_position_action with "new_position >= old_position" for the
\* increase of a long position
get_position_action_ge(old_position, new_position, allow_short) ==
    IF old_position = 0
    THEN IF new_position > 0 THEN "OpenLong"
         ELSE IF new_position < 0 THEN "OpenShort"
         ELSE "Unchanged"
    ELSE IF old_position > 0
    THEN IF new_position = 0 THEN "CloseLong"
         ELSE IF new_position < 0 THEN "FlipLongToShort"
         ELSE IF new_position >= old_position THEN "IncreaseLong"
         ELSE IF new_position < old_position THEN "DecreaseLong"
         ELSE "Unchanged"
    ELSE IF new_position = 0 THEN "CloseShort"
         ELSE IF new_position > 0 THEN "FlipShortToLong"
         ELSE IF Abs(new_position) > Abs(old_position) THEN "IncreaseShort"
         ELSE IF Abs(new_position) < Abs(old_position) THEN "DecreaseShort"
         ELSE "Unchanged"

\* MultiMarketTrader.get_position_action
get_position_action(old_position, new_position, allow_short) ==
    IF old_position = 0
    THEN IF new_position > 0 THEN "OpenLong"
         ELSE IF new_position < 0 THEN "OpenShort"
         ELSE "Unchanged"
    ELSE IF old_position > 0
    THEN IF new_position = 0 THEN "CloseLong"
         ELSE IF new_position < 0 THEN "FlipLongToShort"
         ELSE IF new_position > old_position THEN "IncreaseLong"
         ELSE IF new_position < old_position THEN "DecreaseLong"
         ELSE "Unchanged"
    ELSE IF new_position = 0 THEN "CloseShort"
         ELSE IF new_position > 0 THEN "FlipShortToLong"
         ELSE IF Abs(new_position) > Abs(old_position) THEN "IncreaseShort"
         ELSE IF Abs(new_position) < Abs(old_position) THEN "DecreaseShort"
         ELSE "Unchanged"

\* ------------------------------------------------------------------------
\* Ledger
\* ------------------------------------------------------------------------

\* the dictionary execute_position_adjustment falls back to when the
\* symbol has no record yet
default_pos(symbol_info) ==
    [ target_position |-> 0, current_units |-> 0, position_type |-> "flat",
      allocated_capital |-> symbol_info.per_symbol_capital ]

\* self.positions.get(symbol_key, {...})
positions_get(pos, symbol_info) ==
    IF symbol_info.symbol \in DOMAIN pos
    THEN pos[symbol_info.symbol]
    ELSE default_pos(symbol_info)

\* 'long' if target_position > 0 else ('short' if target_position < 0
\* else 'flat')
position_type_of(target_position) ==
    IF target_position > 0 THEN "long"
    ELSE IF target_position < 0 THEN "short"
    ELSE "flat"

\* an assignment that replaces the whole dictionary by the one record
positions_set_clobber(pos, symbol_key, rec) ==
    [ k \in {symbol_key} |-> rec ]

\* self.positions[symbol_key] = {...}
positions_set(pos, symbol_key, rec) ==
    [ k \in (DOMAIN pos) \cup {symbol_key} |->
        IF k = symbol_key THEN rec ELSE pos[k] ]

\* execute_position_adjustment without the early return: an Unchanged
\* action still rewrites the record (timestamp and reason included)
execute_position_adjustment_no_return(pos, symbol_info, target_position, reason, preply, has_date, now) ==
    LET current_pos == positions_get(pos, symbol_info)
        old_position == current_pos.target_position
        action == get_position_action(old_position, target_position,
                                      symbol_info.allow_short)
        current_price == get_current_price(symbol_info, preply, has_date)
        sized == calculate_target_units(symbol_info, target_position,
                                        current_price)
        rec == [ target_position |-> target_position,
                 current_units |-> sized.units,
                 position_type |-> position_type_of(target_position),
                 allocated_capital |-> current_pos.allocated_capital,
                 last_update |-> now,
                 reason |-> reason,
                 market_type |-> symbol_info.market_type,
                 symbol_name |-> symbol_info.name,
                 leverage |-> symbol_info.leverage ]
    IN  IF sized.raised
        THEN [ positions |-> pos, outcome |-> "exception",
               action |-> action, sized |-> TRUE, price |-> current_price ]
        ELSE [ positions |-> positions_set(pos, symbol_info.symbol, rec),
               outcome |-> IF action = "Unchanged" THEN "unchanged"
                           ELSE "applied",
               action |-> action, sized |-> TRUE, price |-> current_price ]

\* the trade direction execute_position_adjustment logs when
\* units_to_trade # 0: "BuyOpenLong" is 买入开多, "SellOpenShort" is 卖出开空,
\* "SellCloseLong" is 卖出平多 and "BuyCloseShort" is 买入平空
trade_direction(units_to_trade, target_position, old_units) ==
    IF units_to_trade > 0
    THEN IF target_position > 0 THEN "BuyOpenLong" ELSE "SellOpenShort"
    ELSE IF old_units > 0 THEN "SellCloseLong" ELSE "BuyCloseShort"

\* execute_position_adjustment storing the leveraged capital as the record's
\* allocated_capital
execute_position_adjustment_effective_capital(pos, symbol_info, target_position, reason, preply, has_date, now) ==
    LET current_pos == positions_get(pos, symbol_info)
        old_position == current_pos.target_position
        allocated_capital == current_pos.allocated_capital
        action == get_position_action(old_position, target_position,
                                      symbol_info.allow_short)
        current_price == get_current_price(symbol_info, preply, has_date)
        sized == calculate_target_units(symbol_info, target_position,
                                        current_price)
        rec == [ target_position |-> target_position,
                 current_units |-> sized.units,
                 position_type |-> position_type_of(target_position),
                 allocated_capital |-> allocated_capital * symbol_info.leverage,
                 last_update |-> now,
                 reason |-> reason,
                 market_type |-> symbol_info.market_type,
                 symbol_name |-> symbol_info.name,
                 leverage |-> symbol_info.leverage ]
    IN  IF action = "Unchanged"
        THEN [ positions |-> pos, outcome |-> "unchanged",
               action |-> action, sized |-> FALSE, price |-> None ]
        ELSE IF sized.raised
        THEN [ positions |-> pos, outcome |-> "exception",
               action |-> action, sized |-> TRUE, price |-> current_price ]
        ELSE [ positions |-> positions_set(pos, symbol_info.symbol, rec),
               outcome |-> "applied",
               action |-> action, sized |-> TRUE, price |-> current_price ]

\* MultiMarketTrader.execute_position_adjustment.  The result carries the
\* ledger after the call, whether the call raised, the classified action
\* and the price used for sizing (None when sizing was not reached).
execute_position_adjustment(pos, symbol_info, target_position, reason, preply, has_date, now) ==
    LET current_pos == positions_get(pos, symbol_info)
        old_position == current_pos.target_position
        allocated_capital == current_pos.allocated_capital
        action == get_position_action(old_position, target_position,
                                      symbol_info.allow_short)
        current_price == get_current_price(symbol_info, preply, has_date)
        sized == calculate_target_units(symbol_info, target_position,
                                        current_price)
        rec == [ target_position |-> target_position,
                 current_units |-> sized.units,
                 position_type |-> position_type_of(target_position),
                 allocated_capital |-> allocated_capital,
                 last_update |-> now,
                 reason |-> reason,
                 market_type |-> symbol_info.market_type,
                 symbol_name |-> symbol_info.name,
                 leverage |-> symbol_info.leverage ]
    IN  IF action = "Unchanged"
        THEN [ positions |-> pos, outcome |-> "unchanged",
               action |-> action, sized |-> FALSE, price |-> None ]
        ELSE IF sized.raised
        THEN [ positions |-> pos, outcome |-> "exception",
               action |-> action, sized |-> TRUE, price |-> current_price ]
        ELSE [ positions |-> positions_set(pos, symbol_info.symbol, rec),
               outcome |-> "applied",
               action |-> action, sized |-> TRUE, price |-> current_price ]

\* ------------------------------------------------------------------------
\* Normalisation at the three call sites
\* ------------------------------------------------------------------------

\* the lines of sync_all_positions with the sign convention inverted for
\* instruments that may be shorted
normalize_sync_negated(target_position, symbol_info) ==
    LET clamped == PyMax(Num(-One), PyMin(Num(One), target_position)).v
    IN  IF ~symbol_info.allow_short /\ clamped < 0 THEN 0
        ELSE IF symbol_info.allow_short THEN -clamped
        ELSE clamped

\* the clamp of sync_all_positions without the short suppression
normalize_sync_no_suppress(target_position, symbol_info) ==
    PyMax(Num(-One), PyMin(Num(One), target_position)).v

\* sync_all_positions, lines 872-877
normalize_sync(target_position, symbol_info) ==
    LET clamped == PyMax(Num(-One), PyMin(Num(One), target_position)).v
    IN  IF ~symbol_info.allow_short /\ clamped < 0 THEN 0 ELSE clamped

\* the short suppression of check_and_sync_morning without the clamp
normalize_morning_no_clamp(target_position, symbol_info) ==
    IF ~symbol_info.allow_short /\ target_position.v < 0
    THEN 0
    ELSE target_position.v

\* check_and_sync_morning, lines 986-990
normalize_morning(target_position, symbol_info) ==
    LET clamped == PyMax(Num(-One), PyMin(Num(One), target_position)).v
    IN  IF ~symbol_info.allow_short /\ clamped < 0 THEN 0 ELSE clamped

\* the clamp of check_and_sync_late without the short suppression
normalize_late_no_suppress(target_position, symbol_info) ==
    PyMax(Num(-One), PyMin(Num(One), target_position)).v

\* check_and_sync_late, lines 1024-1028
normalize_late(target_position, symbol_info) ==
    LET clamped == PyMax(Num(-One), PyMin(Num(One), target_position)).v
    IN  IF ~symbol_info.allow_short /\ clamped < 0 THEN 0 ELSE clamped

\* ------------------------------------------------------------------------
\* One iteration of each reconcile-all loop
\* ------------------------------------------------------------------------

\* a failed fetch that forces the instrument flat
fetch_failed_flat(pos, symbol_info) ==
    [ positions |-> positions_set(pos, symbol_info.symbol,
                                  default_pos(symbol_info)),
      outcome |-> "fetch_failed", action |-> "none",
      sized |-> FALSE, price |-> None, fetched |-> None, target |-> 0 ]

\* the else branch of "if target_position is not None": a warning is
\* logged and the ledger is not touched
fetch_failed(pos, symbol_info) ==
    [ positions |-> pos, outcome |-> "fetch_failed", action |-> "none",
      sized |-> FALSE, price |-> None, fetched |-> None, target |-> 0 ]

\* adds the fetched and the normalised exposure to an adjustment's result
with_target(res, fetched, target) ==
    [ positions |-> res.positions, outcome |-> res.outcome,
      action |-> res.action, sized |-> res.sized, price |-> res.price,
      fetched |-> fetched, target |-> target ]

\* the body of the for loop of sync_all_positions
sync_all_positions_body(pos, symbol_info, data_source, reply, preply, has_date, now) ==
    LET fetched == IF data_source = "realtime"
                   THEN get_realtime_position(reply)
                   ELSE get_history_position(reply, has_date)
        reason == IF data_source = "realtime"
                  THEN "startup(realtime) - realtime"
                  ELSE "startup(history) - history"
        target_position == normalize_sync(fetched, symbol_info)
    IN  IF fetched.kind # "None"
        THEN with_target(
               execute_position_adjustment(pos, symbol_info, target_position,
                                           reason, preply, has_date, now),
               fetched, target_position)
        ELSE fetch_failed(pos, symbol_info)

\* the consistent branch of the scheduled checks: nothing is adjusted
consistent(pos, fetched, target) ==
    [ positions |-> pos, outcome |-> "consistent", action |-> "none",
      sized |-> FALSE, price |-> None, fetched |-> fetched,
      target |-> target ]

\* the body of the for loop of check_and_sync_morning
check_and_sync_morning_body(pos, symbol_info, reply, preply, has_date, now) ==
    LET fetched == get_history_position(reply, has_date)
        target_position == normalize_morning(fetched, symbol_info)
        old_position == IF symbol_info.symbol \in DOMAIN pos
                        THEN pos[symbol_info.symbol].target_position
                        ELSE 0
    IN  IF fetched.kind # "None"
        THEN IF Abs(target_position - old_position) > Tolerance
             THEN with_target(
                    execute_position_adjustment(pos, symbol_info,
                                                target_position, "morning",
                                                preply, has_date, now),
                    fetched, target_position)
             ELSE consistent(pos, fetched, target_position)
        ELSE fetch_failed(pos, symbol_info)

\* the body of the for loop of check_and_sync_late
check_and_sync_late_body(pos, symbol_info, reply, preply, has_date, now) ==
    LET fetched == get_realtime_position(reply)
        target_position == normalize_late(fetched, symbol_info)
        old_position == IF symbol_info.symbol \in DOMAIN pos
                        THEN pos[symbol_info.symbol].target_position
                        ELSE 0
    IN  IF fetched.kind # "None"
        THEN IF Abs(target_position - old_position) > Tolerance
             THEN with_target(
                    execute_position_adjustment(pos, symbol_info,
                                                target_position, "late",
                                                preply, has_date, now),
                    fetched, target_position)
             ELSE consistent(pos, fetched, target_position)
        ELSE fetch_failed(pos, symbol_info)

\* a summary that drops the flat records from the ledger while listing it
print_position_summary_prune(pos) ==
    [ positions |->
          [ k \in { j \in DOMAIN pos : pos[j].position_type # "flat" }
              |-> pos[k] ],
      listed |-> DOMAIN pos ]

\* MultiMarketTrader.print_position_summary: iterates over
\* self.positions.items() reading the records (and the current price of
\* each listed symbol) and logs the totals; it assigns to no attribute and
\* to no record
print_position_summary(pos) ==
    [ positions |-> pos, listed |-> DOMAIN pos ]

\* ------------------------------------------------------------------------
\* The A-share trader (PositionSyncTrader) next to the multi-market trader
\* ------------------------------------------------------------------------

\* ACCOUNT_VALUE of the A-share script, in yuan
ACCOUNT_VALUE == 1000000

\* the A-share lot: calculate_target_shares divides and multiplies by 100
AShareLot == 100

\* the one stock both traders follow
PairSymbol == "000001.SZ"

\* the multi-market trader's view of that stock: long-only, leverage 1,
\* the whole account as its capital
PairInfo == SymbolInfo(PairSymbol, "cnstock", "PingAn", FALSE, 1, ACCOUNT_VALUE)

\* PositionSyncTrader.get_realtime_position: float(result['data']['position'])
\* (a missing field is a KeyError, hence None)
ashare_get_realtime_position(reply) ==
    IF reply.status = "success" /\ reply.has_position
    THEN reply.position
    ELSE None

\* PositionSyncTrader.get_history_position
ashare_get_history_position(reply, has_date) ==
    IF ~has_date THEN None
    ELSE IF reply.status = "success" /\ reply.has_position
    THEN reply.position
    ELSE None

\* default_prices.get(symbol, 10.0) of the A-share script
ashare_default_prices(symbol) ==
    CASE symbol = "000001.SZ" -> 1162
      [] symbol = "000002.SZ" -> 832
      [] symbol = "000858.SZ" -> 15080
      [] symbol = "600519.SH" -> 170500
      [] OTHER -> 1000

\* PositionSyncTrader.get_current_price
ashare_get_current_price(symbol, preply, has_date) ==
    IF has_date /\ preply.row = "close" THEN preply.close
    ELSE IF has_date /\ preply.row = "bad" THEN None
    ELSE Num(ashare_default_prices(symbol))

\* calculate_target_shares rounding to whole shares instead of lots of 100
calculate_target_shares_no_lots(account_value, target_position, current_price) ==
    IF current_price.kind = "None"
       \/ (current_price.kind = "num" /\ current_price.v <= 0)
    THEN [raised |-> FALSE, shares |-> 0]
    ELSE IF current_price.kind = "nan"
    THEN [raised |-> TRUE, shares |-> 0]
    ELSE
      LET target_value == account_value * target_position
          lots == Abs(target_value)
                    \div ((One \div PriceScale) * current_price.v)
      IN  IF target_value >= 0
          THEN [raised |-> FALSE, shares |-> lots]
          ELSE [raised |-> FALSE, shares |-> -lots]

\* PositionSyncTrader.calculate_target_shares at the price
\* get_current_price returned; int() truncates towards zero, and raised is
\* the ValueError of int(nan)
calculate_target_shares(account_value, target_position, current_price) ==
    IF current_price.kind = "None"
       \/ (current_price.kind = "num" /\ current_price.v <= 0)
    THEN [raised |-> FALSE, shares |-> 0]
    ELSE IF current_price.kind = "nan"
    THEN [raised |-> TRUE, shares |-> 0]
    ELSE
      LET target_value == account_value * target_position
          lots == Abs(target_value)
                    \div ((One \div PriceScale) * current_price.v * AShareLot)
      IN  IF target_value >= 0
          THEN [raised |-> FALSE, shares |-> lots * AShareLot]
          ELSE [raised |-> FALSE, shares |-> -(lots * AShareLot)]

\* PositionSyncTrader.get_position_action; the labels stand for
\* Open = 建仓, Close = 清仓, Increase = 增仓, Decrease = 减仓,
\* Hold = 保持不变
ashare_get_position_action(old_position, new_position) ==
    IF old_position = 0 /\ new_position > 0 THEN "Open"
    ELSE IF old_position > 0 /\ new_position = 0 THEN "Close"
    ELSE IF new_position > old_position THEN "Increase"
    ELSE IF new_position < old_position THEN "Decrease"
    ELSE "Hold"

\* PositionSyncTrader.execute_position_adjustment: the ledger after the
\* call, whether it returned early, raised or wrote the record, and the
\* classified action
ashare_execute_position_adjustment(pos, symbol, account_value, target_position, reason, preply, has_date, now) ==
    LET current_pos == IF symbol \in DOMAIN pos
                       THEN pos[symbol]
                       ELSE [target_position |-> 0, current_shares |-> 0]
        old_position == current_pos.target_position
        action == ashare_get_position_action(old_position, target_position)
        current_price == ashare_get_current_price(symbol, preply, has_date)
        sized == calculate_target_shares(account_value, target_position,
                                         current_price)
        rec == [ target_position |-> target_position,
                 current_shares |-> sized.shares,
                 last_update |-> now,
                 reason |-> reason ]
    IN  IF action = "Hold"
        THEN [ positions |-> pos, outcome |-> "unchanged",
               action |-> action ]
        ELSE IF sized.raised
        THEN [ positions |-> pos, outcome |-> "exception",
               action |-> action ]
        ELSE [ positions |-> positions_set(pos, symbol, rec),
               outcome |-> "applied", action |-> action ]

\* max(0.0, min(1.0, target_position)) of the A-share loops
ashare_clamp(target_position) ==
    PyMax(Num(0), PyMin(Num(One), target_position)).v

\* the body of the for loop of PositionSyncTrader.sync_all_positions
ashare_sync_all_positions_body(pos, symbol, account_value, data_source, reply, preply, has_date, now) ==
    LET fetched == IF data_source = "realtime"
                   THEN ashare_get_realtime_position(reply)
                   ELSE ashare_get_history_position(reply, has_date)
        reason == IF data_source = "realtime"
                  THEN "startup(realtime) - realtime"
                  ELSE "startup(history) - history"
    IN  IF fetched.kind # "None"
        THEN ashare_execute_position_adjustment(pos, symbol, account_value,
                 ashare_clamp(fetched), reason, preply, has_date, now)
        ELSE [ positions |-> pos, outcome |-> "fetch_failed",
               action |-> "none" ]

\* the lines both scheduled checks of the A-share trader share once the
\* exposure is fetched: clamp, compare with the stored exposure, adjust
ashare_check_body(pos, symbol, account_value, fetched, reason, preply, has_date, now) ==
    LET target_position == ashare_clamp(fetched)
        old_position == IF symbol \in DOMAIN pos
                        THEN pos[symbol].target_position
                        ELSE 0
    IN  IF fetched.kind # "None"
        THEN IF Abs(target_position - old_position) > Tolerance
             THEN ashare_execute_position_adjustment(pos, symbol,
                      account_value, target_position, reason, preply,
                      has_date, now)
             ELSE [ positions |-> pos, outcome |-> "consistent",
                    action |-> "none" ]
        ELSE [ positions |-> pos, outcome |-> "fetch_failed",
               action |-> "none" ]

\* the body of the for loop of PositionSyncTrader.check_and_sync_morning
ashare_check_and_sync_morning_body(pos, symbol, account_value, reply, preply, has_date, now) ==
    ashare_check_body(pos, symbol, account_value,
                      ashare_get_history_position(reply, has_date),
                      "morning", preply, has_date, now)

\* the body of the for loop of PositionSyncTrader.check_and_sync_late
ashare_check_and_sync_late_body(pos, symbol, account_value, reply, preply, has_date, now) ==
    ashare_check_body(pos, symbol, account_value,
                      ashare_get_realtime_position(reply),
                      "late", preply, has_date, now)

\* ------------------------------------------------------------------------
\* State
\* ------------------------------------------------------------------------

VARIABLES
    pc,           \* "init", "sync", "idle", "morning", "late"
    idx,          \* index in self.symbols of the next symbol of the loop
    data_source,  \* the data source startup_sync chose (its local variable)
    has_date,     \* self.latest_trading_date has been assigned
    positions,    \* self.positions: symbol -> record
    clock,        \* the wall clock datetime.now() reads
    last,         \* the last loop iteration: its inputs and its outcome
    in_flight,    \* runs over self.symbols that were called and have not returned
    attempted,    \* indexes the current (or last) run has iterated over, in order
    call          \* a call of one of the pure functions, for their own checks

vars == << pc, idx, data_source, has_date, positions, clock, last, in_flight, attempted, call >>

NoCall == [fn |-> "none"]

NoStep ==
    [ op |-> "none", sym |-> 0, outcome |-> "none", action |-> "none",
      price |-> None, fetched |-> None, target |-> 0, malformed |-> FALSE ]

\* the record of an iteration kept in last; malformed says that the position
\* reply was a success reply without the position field
StepOf(op, i, res, reply) ==
    [ op |-> op, sym |-> i, outcome |-> res.outcome, action |-> res.action,
      price |-> res.price, fetched |-> res.fetched, target |-> res.target,
      malformed |-> (reply.status = "success" /\ ~reply.has_position) ]

\* MultiMarketTrader.__init__ up to the API test: the ledger is empty
Init ==
    /\ pc = "init"
    /\ idx = 1
    /\ data_source = "none"
    /\ has_date = FALSE
    /\ positions = << >>
    /\ clock = 0
    /\ last = NoStep
    /\ in_flight = 0
    /\ attempted = << >>
    /\ call = NoCall

\* __init__, test_all_apis passed: the trading date is set and
\* startup_sync picks the data source from the hour of day
TestAllApisPass ==
    /\ pc = "init"
    /\ \E src \in {"realtime", "history"} : data_source' = src
    /\ has_date' = TRUE
    /\ pc' = "sync"
    /\ idx' = 1
    /\ in_flight' = in_flight + 1
    /\ attempted' = << >>
    /\ UNCHANGED << positions, clock, last, call >>

\* __init__, test_all_apis failed: the constructor returns early; the
\* trader object exists with its positions attribute, so __main__ calls run()
TestAllApisFail ==
    /\ pc = "init"
    /\ pc' = "idle"
    /\ UNCHANGED << idx, data_source, has_date, positions, clock, last, in_flight, attempted, call >>

\* one iteration of sync_all_positions; the last one is followed by
\* print_position_summary, which only reads the ledger
SyncStep ==
    /\ pc = "sync"
    /\ \E reply \in Replies(idx), preply \in PriceReplies(idx) :
         LET res == sync_all_positions_body(positions, SYMBOLS[idx],
                                            data_source, reply, preply,
                                            has_date, clock)
         IN  /\ positions' = IF idx < NumSymbols THEN res.positions
                              ELSE print_position_summary(res.positions).positions
             /\ last' = StepOf("sync", idx, res, reply)
    /\ IF idx < NumSymbols
       THEN /\ idx' = idx + 1 /\ pc' = pc /\ data_source' = data_source
            /\ in_flight' = in_flight
       ELSE /\ idx' = 1 /\ pc' = "idle" /\ data_source' = "none"
            /\ in_flight' = in_flight - 1
    /\ attempted' = Append(attempted, idx)
    /\ UNCHANGED << has_date, clock, call >>

\* run(): schedule.run_pending starts a due morning job
ScheduleMorning ==
    /\ pc = "idle"
    /\ pc' = "morning"
    /\ idx' = 1
    /\ in_flight' = in_flight + 1
    /\ attempted' = << >>
    /\ UNCHANGED << data_source, has_date, positions, clock, last, call >>

\* a late job started in a thread of its own, whatever the main thread is
\* doing
ScheduleLate_reentrant ==
    /\ pc # "init"
    /\ pc' = "late"
    /\ idx' = 1
    /\ in_flight' = in_flight + 1
    /\ attempted' = << >>
    /\ UNCHANGED << data_source, has_date, positions, clock, last, call >>

\* run(): schedule.run_pending starts a due late job
ScheduleLate ==
    /\ pc = "idle"
    /\ pc' = "late"
    /\ idx' = 1
    /\ in_flight' = in_flight + 1
    /\ attempted' = << >>
    /\ UNCHANGED << data_source, has_date, positions, clock, last, call >>

\* check_and_sync_morning with the try/except around the loop instead of
\* inside it: the first failing instrument ends the run
MorningStep_abort_on_failure ==
    /\ pc = "morning"
    /\ \E reply \in Replies(idx), preply \in PriceReplies(idx) :
         LET res == check_and_sync_morning_body(positions, SYMBOLS[idx],
                                                reply, preply, has_date,
                                                clock)
         IN  /\ positions' = res.positions
             /\ last' = StepOf("morning", idx, res, reply)
             /\ IF idx < NumSymbols
                   /\ res.outcome \notin {"fetch_failed", "exception"}
                THEN idx' = idx + 1 /\ pc' = pc /\ in_flight' = in_flight
                ELSE idx' = 1 /\ pc' = "idle" /\ in_flight' = in_flight - 1
    /\ attempted' = Append(attempted, idx)
    /\ UNCHANGED << data_source, has_date, clock, call >>

\* one iteration of check_and_sync_morning
MorningStep ==
    /\ pc = "morning"
    /\ \E reply \in Replies(idx), preply \in PriceReplies(idx) :
         LET res == check_and_sync_morning_body(positions, SYMBOLS[idx],
                                                reply, preply, has_date,
                                                clock)
         IN  /\ positions' = res.positions
             /\ last' = StepOf("morning", idx, res, reply)
    /\ IF idx < NumSymbols
       THEN idx' = idx + 1 /\ pc' = pc /\ in_flight' = in_flight
       ELSE idx' = 1 /\ pc' = "idle" /\ in_flight' = in_flight - 1
    /\ attempted' = Append(attempted, idx)
    /\ UNCHANGED << data_source, has_date, clock, call >>

\* one iteration of check_and_sync_late
LateStep ==
    /\ pc = "late"
    /\ \E reply \in Replies(idx), preply \in PriceReplies(idx) :
         LET res == check_and_sync_late_body(positions, SYMBOLS[idx],
                                             reply, preply, has_date, clock)
         IN  /\ positions' = res.positions
             /\ last' = StepOf("late", idx, res, reply)
    /\ IF idx < NumSymbols
       THEN idx' = idx + 1 /\ pc' = pc /\ in_flight' = in_flight
       ELSE idx' = 1 /\ pc' = "idle" /\ in_flight' = in_flight - 1
    /\ attempted' = Append(attempted, idx)
    /\ UNCHANGED << data_source, has_date, clock, call >>

\* run(): schedule.run_pending starts the due 15:05 job, which is
\* print_position_summary itself
SummaryJob ==
    /\ pc = "idle"
    /\ positions' = print_position_summary(positions).positions
    /\ last' = [NoStep EXCEPT !.op = "summary", !.outcome = "reported"]
    /\ UNCHANGED << pc, idx, data_source, has_date, clock, in_flight, attempted, call >>

\* time passes
Tick ==
    /\ clock < MaxClock
    /\ clock' = clock + 1
    /\ UNCHANGED << pc, idx, data_source, has_date, positions, last, in_flight, attempted, call >>

Next ==
    \/ TestAllApisPass
    \/ TestAllApisFail
    \/ SyncStep
    \/ ScheduleMorning
    \/ ScheduleLate
    \/ MorningStep
    \/ LateStep
    \/ SummaryJob
    \/ Tick

Spec == Init /\ [][Next]_vars

\* ------------------------------------------------------------------------
\* The pure functions, applied to inputs drawn from bounded grids
\* ------------------------------------------------------------------------

\* exposures handed to get_position_action
ExposureGrid == { -1000, -400, -1, 0, 1, 500, 1000 }

\* raw values handed to the normalisation of a call site
RawGrid ==
    { Num(-1500), Num(-1000), Num(-300), Num(-1), Num(0), Num(1), Num(500),
      Num(1000), Num(1500), NaN }

ClassifyCalls ==
    { [fn |-> "get_position_action", old |-> o, new |-> n, allow |-> a,
       done |-> FALSE, result |-> "none"] :
        o \in ExposureGrid, n \in ExposureGrid, a \in BOOLEAN }

NormalizeCalls ==
    { [fn |-> "normalize", site |-> st, raw |-> r, allow |-> a,
       done |-> FALSE, result |-> 0] :
        st \in {"sync", "morning", "late"}, r \in RawGrid, a \in BOOLEAN }

\* the normalisation of a call site applied to its own result
NormalizeTwiceCalls ==
    { [fn |-> "normalize_twice", site |-> st, raw |-> r, allow |-> a,
       done |-> FALSE, once |-> 0, twice |-> 0] :
        st \in {"sync", "morning", "late"}, r \in RawGrid, a \in BOOLEAN }

\* instruments handed to calculate_target_units: the two of SYMBOLS and the
\* future of __main__, whose explicit leverage 1 differs from the market's 10
SizeInstruments ==
    << SYMBOLS[1], SYMBOLS[2],
       SymbolInfo("ICL1.CFX", "futures", "CSI500", TRUE, 1, 100000) >>

\* prices handed to calculate_target_units: 10.00, 11.62 and 2500.00
ValidPrices == { Num(1000), Num(1162), Num(250000) }

\* prices for which sizing does not compute: None, 0 and nan
InvalidPrices == { None, Num(0), NaN }

SizeCalls ==
    { [fn |-> "calculate_target_units", inst |-> i, exposure |-> e,
       price |-> p, done |-> FALSE, raised |-> FALSE, units |-> 0] :
        i \in 1..Len(SizeInstruments), e \in ExposureGrid,
        p \in ValidPrices \cup InvalidPrices }

\* two sizings of the same instrument at the same valid price
SizePairCalls ==
    { [fn |-> "size_pair", inst |-> i, e1 |-> a, e2 |-> b, price |-> p,
       done |-> FALSE, units1 |-> 0, units2 |-> 0] :
        i \in 1..Len(SizeInstruments), a \in ExposureGrid,
        b \in ExposureGrid, p \in ValidPrices }

\* SymbolInfo(...) with allow_short and leverage passed or left out, for a
\* long-only and a shortable market type
ConstructCalls ==
    { [fn |-> "SymbolInfo", market_type |-> mt, allow_short |-> a,
       leverage |-> l, done |-> FALSE, r_allow_short |-> FALSE,
       r_leverage |-> 0, suppressed |-> 0, units |-> 0] :
        mt \in {"cnstock", "futures"},
        a \in {UnsetBool, Given(TRUE), Given(FALSE)},
        l \in {UnsetInt, Given(1), Given(5), Given(10)} }

\* DEFAULT_PER_SYMBOL_CAPITAL of __main__
DefaultCapital == 100000

\* instruments a symbols list is made of: with and without a capital, and
\* one whose market type has no entry in the table of init_market_config
ListInstruments ==
    { SymbolInfo_init("000001.SZ", "cnstock", "PingAn", UnsetBool, UnsetInt,
                      Given(200000)),
      SymbolInfo_init("123118.SZ", "cbond", "123118", UnsetBool, UnsetInt,
                      UnsetInt),
      SymbolInfo_init("BTCUSDT", "crypto", "Bitcoin", Given(TRUE), Given(1),
                      Given(100000)) }

\* the symbols lists of the constructor calls: one or two instruments
SymbolLists ==
    { << a >> : a \in ListInstruments }
    \cup { l \in ListInstruments \X ListInstruments : l[1] # l[2] }

TraderCalls ==
    { [fn |-> "MultiMarketTrader", symbols |-> l, done |-> FALSE,
       raised |-> FALSE, total_account_value |-> 0, capitals |-> << >>,
       lots |-> << >>] : l \in SymbolLists }

InitPure ==
    /\ pc = "init"
    /\ idx = 1
    /\ data_source = "none"
    /\ has_date = FALSE
    /\ positions = << >>
    /\ clock = 0
    /\ last = NoStep
    /\ in_flight = 0
    /\ attempted = << >>
    /\ call \in ClassifyCalls \cup NormalizeCalls \cup NormalizeTwiceCalls
                 \cup SizeCalls \cup SizePairCalls \cup ConstructCalls
                 \cup TraderCalls

\* get_position_action(old_position, new_position, allow_short)
ClassifyCall ==
    /\ call.fn = "get_position_action"
    /\ ~call.done
    /\ call' = [call EXCEPT !.done = TRUE,
                  !.result = get_position_action(call.old, call.new,
                                                 call.allow)]
    /\ UNCHANGED << pc, idx, data_source, has_date, positions, clock, last, in_flight, attempted >>

\* the clamp-and-suppress lines of the call site call.site, for an
\* instrument whose allow_short is call.allow
NormalizeCall ==
    /\ call.fn = "normalize"
    /\ ~call.done
    /\ LET info == SymbolInfo("X", "cnstock", "X", call.allow, 1, 100000)
       IN  call' = [call EXCEPT !.done = TRUE,
                      !.result =
                         CASE call.site = "sync" ->
                                normalize_sync(call.raw, info)
                           [] call.site = "morning" ->
                                normalize_morning(call.raw, info)
                           [] OTHER -> normalize_late(call.raw, info)]
    /\ UNCHANGED << pc, idx, data_source, has_date, positions, clock, last, in_flight, attempted >>

\* the normalisation of call.site for an instrument whose allow_short is
\* allow
NormalizeAt(site, raw, allow) ==
    LET info == SymbolInfo("X", "cnstock", "X", allow, 1, 100000)
    IN  CASE site = "sync" -> normalize_sync(raw, info)
          [] site = "morning" -> normalize_morning(raw, info)
          [] OTHER -> normalize_late(raw, info)

\* a call site normalises a raw exposure, and then its own result
NormalizeTwiceCall ==
    /\ call.fn = "normalize_twice"
    /\ ~call.done
    /\ LET once == NormalizeAt(call.site, call.raw, call.allow)
       IN  call' = [call EXCEPT !.done = TRUE, !.once = once,
                      !.twice = NormalizeAt(call.site, Num(once), call.allow)]
    /\ UNCHANGED << pc, idx, data_source, has_date, positions, clock, last, in_flight, attempted >>

\* calculate_target_units(symbol_info, target_position) at a given price
SizeCall ==
    /\ call.fn = "calculate_target_units"
    /\ ~call.done
    /\ LET r == calculate_target_units(SizeInstruments[call.inst],
                                       call.exposure, call.price)
       IN  call' = [call EXCEPT !.done = TRUE, !.raised = r.raised,
                      !.units = r.units]
    /\ UNCHANGED << pc, idx, data_source, has_date, positions, clock, last, in_flight, attempted >>

\* calculate_target_units for two exposures, same instrument and price
SizePairCall ==
    /\ call.fn = "size_pair"
    /\ ~call.done
    /\ call' = [call EXCEPT !.done = TRUE,
                  !.units1 = calculate_target_units(SizeInstruments[call.inst],
                                                    call.e1, call.price).units,
                  !.units2 = calculate_target_units(SizeInstruments[call.inst],
                                                    call.e2, call.price).units]
    /\ UNCHANGED << pc, idx, data_source, has_date, positions, clock, last, in_flight, attempted >>

\* SymbolInfo(...) is constructed, handed to the trader, and used to
\* normalise a fetched -0.5 at startup and to size 0.5 at price 10.00
ConstructCall ==
    /\ call.fn = "SymbolInfo"
    /\ ~call.done
    /\ LET made == SymbolInfo_init("X", call.market_type, "X",
                                   call.allow_short, call.leverage,
                                   Given(DefaultCapital))
           info == trader_init(<< made >>, DefaultCapital).symbols[1]
       IN  call' = [call EXCEPT !.done = TRUE,
                      !.r_allow_short = info.allow_short,
                      !.r_leverage = info.leverage,
                      !.suppressed = normalize_sync(Num(-500), info),
                      !.units = calculate_target_units(info, 500,
                                                       Num(1000)).units]
    /\ UNCHANGED << pc, idx, data_source, has_date, positions, clock, last, in_flight, attempted >>

\* MultiMarketTrader(symbols=..., per_symbol_capital=DefaultCapital); lots
\* are the lot sizes sizing then uses for the symbols
TraderCall ==
    /\ call.fn = "MultiMarketTrader"
    /\ ~call.done
    /\ LET r == trader_init(call.symbols, DefaultCapital)
       IN  call' = [call EXCEPT !.done = TRUE,
                      !.raised = r.raised,
                      !.total_account_value = r.total_account_value,
                      !.capitals = [i \in 1..Len(r.symbols) |->
                                      r.symbols[i].per_symbol_capital],
                      !.lots = [i \in 1..Len(r.symbols) |->
                                  min_lots_of(r.symbols[i])]]
    /\ UNCHANGED << pc, idx, data_source, has_date, positions, clock, last, in_flight, attempted >>

NextPure ==
    \/ ConstructCall
    \/ TraderCall
    \/ ClassifyCall
    \/ NormalizeCall
    \/ NormalizeTwiceCall
    \/ SizeCall
    \/ SizePairCall

SpecPure == InitPure /\ [][NextPure]_vars

\* ------------------------------------------------------------------------
\* The two traders side by side
\* ------------------------------------------------------------------------

\* the number of loop iterations the two traders are run side by side
MaxSteps == 3

\* exposures the service returns for the stock: -0.3, 0, 0.001, 0.5, 1.5
PairExposures == { Num(-300), Num(0), Num(1), Num(500), Num(1500) }

\* replies that carry a fetched exposure, and replies that carry none
\* because the request failed
PairReplies ==
    { [status |-> "neterr", has_position |-> FALSE, position |-> None],
      [status |-> "fail", has_position |-> FALSE, position |-> None] }
    \cup { [status |-> "success", has_position |-> TRUE, position |-> p] :
              p \in PairExposures }

\* history rows both traders read the price from: none, a bad 'close',
\* and a 'close' of 0, nan, 1.00 or 10.00
PairPriceReplies ==
    { [row |-> "none", close |-> None], [row |-> "bad", close |-> None] }
    \cup { [row |-> "close", close |-> c] :
              c \in { Num(0), NaN, Num(100), Num(1000) } }

\* both traders constructed for the same stock; has_date is whether the
\* API test passed (both constructors return before the startup
\* reconciliation when it did not)
InitPair ==
    /\ pc = "idle"
    /\ idx = 1
    /\ data_source = "none"
    /\ has_date \in BOOLEAN
    /\ positions = << >>
    /\ clock = 0
    /\ last = NoStep
    /\ in_flight = 0
    /\ attempted = << >>
    /\ call = [fn |-> "pair", a_positions |-> << >>, steps |-> 0,
               site |-> "none", a_action |-> "none", a_outcome |-> "none",
               m_action |-> "none", m_outcome |-> "none"]

\* what one loop iteration of each trader leaves behind
PairAfter(site, a, m) ==
    /\ positions' = m.positions
    /\ call' = [call EXCEPT !.a_positions = a.positions,
                  !.steps = call.steps + 1, !.site = site,
                  !.a_action = a.action, !.a_outcome = a.outcome,
                  !.m_action = m.action, !.m_outcome = m.outcome]
    /\ UNCHANGED << pc, idx, has_date, clock, last, in_flight, attempted >>

\* the startup reconciliation of both traders on the same reply and the
\* same history row
PairSyncStep ==
    /\ call.fn = "pair"
    /\ has_date
    /\ call.steps = 0
    /\ \E src \in {"realtime", "history"}, reply \in PairReplies, preply \in PairPriceReplies :
         /\ data_source' = src
         /\ PairAfter("sync",
              ashare_sync_all_positions_body(call.a_positions, PairSymbol,
                  ACCOUNT_VALUE, src, reply, preply, has_date, call.steps),
              sync_all_positions_body(positions, PairInfo, src, reply,
                  preply, has_date, call.steps))

\* a morning check of both traders
PairMorningStep ==
    /\ call.fn = "pair"
    /\ has_date => call.steps > 0
    /\ call.steps < MaxSteps
    /\ \E reply \in PairReplies, preply \in PairPriceReplies :
         /\ UNCHANGED data_source
         /\ PairAfter("morning",
              ashare_check_and_sync_morning_body(call.a_positions,
                  PairSymbol, ACCOUNT_VALUE, reply, preply, has_date,
                  call.steps),
              check_and_sync_morning_body(positions, PairInfo, reply,
                  preply, has_date, call.steps))

\* a late check of both traders
PairLateStep ==
    /\ call.fn = "pair"
    /\ has_date => call.steps > 0
    /\ call.steps < MaxSteps
    /\ \E reply \in PairReplies, preply \in PairPriceReplies :
         /\ UNCHANGED data_source
         /\ PairAfter("late",
              ashare_check_and_sync_late_body(call.a_positions,
                  PairSymbol, ACCOUNT_VALUE, reply, preply, has_date,
                  call.steps),
              check_and_sync_late_body(positions, PairInfo, reply,
                  preply, has_date, call.steps))

NextPair ==
    \/ PairSyncStep
    \/ PairMorningStep
    \/ PairLateStep

SpecPair == InitPair /\ [][NextPair]_vars


\* ------------------------------------------------------------------------
\* Helpers of the properties
\* ------------------------------------------------------------------------

\* the transition is one iteration of a reconcile-all loop
IsStep == pc \in {"sync", "morning", "late"} /\ << pc, idx >>' # << pc, idx >>

HasRecord(pos, i) == SYMBOLS[i].symbol \in DOMAIN pos

\* the record of symbol i, or the marker of its absence
RecOf(pos, i) ==
    IF HasRecord(pos, i) THEN << "record", pos[SYMBOLS[i].symbol] >>
    ELSE << "absent" >>

MinLots(i) == init_market_config[SYMBOLS[i].market_type].min_lots

PriceInvalid(price) ==
    price.kind = "None" \/ (price.kind = "num" /\ price.v <= 0)

\* ------------------------------------------------------------------------
\* Properties
\* ------------------------------------------------------------------------

\* C1: in every reachable ledger state, the record of an instrument that
\* does not allow shorting has target_position >= 0 and current_units >= 0.
C1_NoDisallowedShort ==
    \A i \in 1..NumSymbols :
       (~SYMBOLS[i].allow_short /\ HasRecord(positions, i)) =>
          /\ positions[SYMBOLS[i].symbol].target_position >= 0
          /\ positions[SYMBOLS[i].symbol].current_units >= 0

\* a negative exposure was fetched for a long-only instrument that held a
\* long position, and the ledger was updated
C1_Witness ==
    /\ last.sym \in 1..NumSymbols
    /\ ~SYMBOLS[last.sym].allow_short
    /\ last.fetched.kind = "num" /\ last.fetched.v < 0
    /\ last.outcome = "applied"
    /\ HasRecord(positions, last.sym)

\* C2: in every reachable ledger state every record's target_position lies
\* in [-1, 1], whatever the service returned.
C2_TargetInRange ==
    \A k \in DOMAIN positions :
       /\ positions[k].target_position >= -One
       /\ positions[k].target_position <= One

\* a raw exposure outside [-1, 1] was fetched and stored
C2_Witness ==
    /\ last.outcome = "applied"
    /\ last.fetched.kind = "num" /\ Abs(last.fetched.v) > One
    /\ HasRecord(positions, last.sym)
    /\ Abs(positions[SYMBOLS[last.sym].symbol].target_position) = One

\* C3: in every reachable ledger state every record's current_units is an
\* integer multiple of the min_lots of the instrument's market type.
C3_LotMultiple ==
    \A i \in 1..NumSymbols :
       HasRecord(positions, i) =>
          Abs(positions[SYMBOLS[i].symbol].current_units) % MinLots(i) = 0

\* a position was sized at a price where the notional is not a whole
\* number of lots (50000 / 11.62 = 4302.9 shares, stored as 4300)
C3_Witness ==
    /\ last.outcome = "applied"
    /\ last.sym = 1
    /\ last.price = Num(1162)
    /\ HasRecord(positions, 1)
    /\ positions[SYMBOLS[1].symbol].current_units = 4300

\* C4: in every reachable ledger state position_type is 'long' iff
\* current_units > 0, 'short' iff current_units < 0 and 'flat' iff
\* current_units = 0.
C4_TypeFollowsUnits ==
    \A k \in DOMAIN positions :
       /\ positions[k].position_type = "long"
             <=> positions[k].current_units > 0
       /\ positions[k].position_type = "short"
             <=> positions[k].current_units < 0
       /\ positions[k].position_type = "flat"
             <=> positions[k].current_units = 0

\* C5: an iteration whose fetcher returned None leaves the ledger exactly
\* as it was, in startup sync, morning check and late check alike.
C5_FetchFailureKeepsLedger ==
    [][(IsStep /\ last'.outcome = "fetch_failed") => positions' = positions]_vars

\* a fetch failed for an instrument that holds a non-flat position
C5_Witness ==
    /\ last.outcome = "fetch_failed"
    /\ HasRecord(positions, last.sym)
    /\ positions[SYMBOLS[last.sym].symbol].current_units # 0

\* C6: an iteration that sizes with an unavailable or non-positive price
\* leaves the ledger untouched.
C6_InvalidPriceKeepsLedger ==
    [][(IsStep /\ last'.outcome \in {"applied", "exception"}
          /\ PriceInvalid(last'.price)) => positions' = positions]_vars

\* C7: an iteration on instrument idx changes the record of no other
\* instrument, whatever its outcome (fetch failure, exception, invalid
\* price or success); and the result of an iteration for its own
\* instrument does not depend on the other instruments' records, so every
\* other instrument ends where it would have ended had this one succeeded.
C7_Frame ==
    IsStep => \A j \in 1..NumSymbols :
                 j # idx => RecOf(positions', j) = RecOf(positions, j)

\* the ledger pos with only the record of symbol i kept
OnlyRecord(pos, i) ==
    [ k \in (DOMAIN pos) \cap {SYMBOLS[i].symbol} |-> pos[k] ]

\* the loop body of the run pc, on the ledger pos
BodyOf(run, pos, i, reply, preply, now) ==
    CASE run = "sync" ->
           sync_all_positions_body(pos, SYMBOLS[i], data_source, reply,
                                   preply, has_date, now)
      [] run = "morning" ->
           check_and_sync_morning_body(pos, SYMBOLS[i], reply, preply,
                                       has_date, now)
      [] OTHER ->
           check_and_sync_late_body(pos, SYMBOLS[i], reply, preply,
                                    has_date, now)

C7_Independent ==
    pc \in {"sync", "morning", "late"} =>
       \A reply \in Replies(idx), preply \in PriceReplies(idx) :
          LET full == BodyOf(pc, positions, idx, reply, preply, clock)
              alone == BodyOf(pc, OnlyRecord(positions, idx), idx, reply,
                              preply, clock)
          IN  /\ RecOf(full.positions, idx) = RecOf(alone.positions, idx)
              /\ full.outcome = alone.outcome

C7_FailureIsolated == [][C7_Frame]_vars /\ []C7_Independent

\* the iteration on one instrument failed while the other instrument holds
\* a non-flat position
C7_Witness ==
    /\ last.outcome \in {"fetch_failed", "exception"}
    /\ \E j \in 1..NumSymbols :
          /\ j # last.sym
          /\ HasRecord(positions, j)
          /\ positions[SYMBOLS[j].symbol].current_units # 0

\* C8: an iteration whose classified action is Unchanged changes no field
\* of the ledger; and once an iteration for an instrument has completed,
\* reconciling it again with the same fetched exposure (by any run that can
\* follow, at any price, now or later) leaves the ledger as it is.
C8_UnchangedStep ==
    (IsStep /\ last'.action = "Unchanged") => positions' = positions

\* the runs that can follow a completed iteration of the run op
FollowingRuns(op) ==
    IF op = "sync" THEN {"sync", "morning", "late"} ELSE {"morning", "late"}

C8_SecondCallNoOp ==
    last.outcome \in {"applied", "unchanged", "consistent"} =>
       \A run \in FollowingRuns(last.op),
          preply \in PriceReplies(last.sym),
          now \in clock..(clock + 1) :
             BodyOf(run, positions, last.sym,
                    [status |-> "success", has_position |-> TRUE,
                     position |-> last.fetched],
                    preply, now).positions = positions

C8_Idempotent == [][C8_UnchangedStep]_vars /\ []C8_SecondCallNoOp

\* the exposure already stored was fetched again for an instrument with a
\* non-flat position, after time has passed since its record was written,
\* and the iteration left it alone
C8_Witness ==
    /\ last.outcome \in {"unchanged", "consistent"}
    /\ HasRecord(positions, last.sym)
    /\ positions[SYMBOLS[last.sym].symbol].target_position = last.target
    /\ positions[SYMBOLS[last.sym].symbol].current_units # 0
    /\ positions[SYMBOLS[last.sym].symbol].last_update < clock

\* the names whose row of the decision table matches (old, new)
DecisionRows(old, new) ==
    { r \in { "OpenLong", "OpenShort", "CloseLong", "CloseShort",
              "FlipLongToShort", "FlipShortToLong", "IncreaseLong",
              "DecreaseLong", "IncreaseShort", "DecreaseShort",
              "Unchanged" } :
        CASE r = "OpenLong" -> old = 0 /\ new > 0
          [] r = "OpenShort" -> old = 0 /\ new < 0
          [] r = "CloseLong" -> old > 0 /\ new = 0
          [] r = "FlipLongToShort" -> old > 0 /\ new < 0
          [] r = "IncreaseLong" -> old > 0 /\ new > old
          [] r = "DecreaseLong" -> old > 0 /\ 0 < new /\ new < old
          [] r = "CloseShort" -> old < 0 /\ new = 0
          [] r = "FlipShortToLong" -> old < 0 /\ new > 0
          [] r = "IncreaseShort" -> old < 0 /\ new < 0 /\ Abs(new) > Abs(old)
          [] r = "DecreaseShort" -> old < 0 /\ new < 0 /\ Abs(new) < Abs(old)
          [] OTHER -> new = old }

\* C9: get_position_action returns, for every (old, new), the one
\* transition of the decision table whose row matches; in particular
\* classify(x, x) is Unchanged.
C9_DecisionTable ==
    (call.fn = "get_position_action" /\ call.done) =>
       /\ DecisionRows(call.old, call.new) = {call.result}
       /\ (call.old = call.new => call.result = "Unchanged")

\* a short position was classified against a smaller short exposure
C9_Witness ==
    /\ call.fn = "get_position_action" /\ call.done
    /\ call.old = -1000 /\ call.new = -400
    /\ call.result = "DecreaseShort"

\* min(1, max(-1, raw)) over the integers
ClampOf(raw) ==
    LET lo == IF raw > -One THEN raw ELSE -One
    IN  IF lo < One THEN lo ELSE One

\* C10: at each of the three call sites, a numeric raw exposure normalises
\* to min(1, max(-1, raw)) when the instrument allows shorting or the
\* clamped value is >= 0, and to 0 when it does not allow shorting and
\* raw < 0; hence the three sites agree.
C10_Normalize ==
    (call.fn = "normalize" /\ call.done /\ call.raw.kind = "num") =>
       /\ (call.allow \/ ClampOf(call.raw.v) >= 0)
             => call.result = ClampOf(call.raw.v)
       /\ (~call.allow /\ call.raw.v < 0) => call.result = 0

\* the late check suppressed a negative exposure of a long-only instrument
C10_Witness ==
    /\ call.fn = "normalize" /\ call.done
    /\ call.site = "late"
    /\ ~call.allow
    /\ call.raw = Num(-300)
    /\ call.result = 0

\* C11: normalisation is idempotent at every call site: normalising the
\* result of a normalisation again returns that result, for every raw
\* exposure (nan included) and both kinds of instrument.
C11_Idempotent ==
    (call.fn = "normalize_twice" /\ call.done) => call.twice = call.once

\* startup sync clamped -1.5 of a shortable instrument to -1, and -1
\* normalised again stayed -1
C11_Witness ==
    /\ call.fn = "normalize_twice" /\ call.done
    /\ call.site = "sync" /\ call.allow
    /\ call.raw = Num(-1500)
    /\ call.once = -One /\ call.twice = -One

\* -1, 0 or 1 as x is negative, zero or positive
Sgn(x) == IF x > 0 THEN 1 ELSE IF x < 0 THEN -1 ELSE 0

\* |capital * leverage * exposure| of a sizing call, in thousandths of the
\* currency unit, from the instrument's own capital and leverage
NotionalOf(inst, exposure) ==
    SizeInstruments[inst].per_symbol_capital * SizeInstruments[inst].leverage
        * Abs(exposure)

\* the value of one lot of the instrument at the price, in thousandths
LotValue(inst, price) ==
    (One \div PriceScale) * price.v
        * init_market_config[SizeInstruments[inst].market_type].min_lots

\* C12: for a valid price > 0, calculate_target_units returns
\* sign(exposure) * q * lotSize where q = floor(|capital * leverage *
\* exposure| / price / lotSize), i.e. q lots fit into the notional and
\* q + 1 lots do not; capital and leverage are the instrument's own and
\* lotSize is the market's min_lots.
C12_SizingFormula ==
    (call.fn = "calculate_target_units" /\ call.done
        /\ call.price \in ValidPrices) =>
       LET lot == init_market_config[
                      SizeInstruments[call.inst].market_type].min_lots
           q == Abs(call.units) \div lot
       IN  /\ ~call.raised
           /\ call.units = Sgn(call.exposure) * q * lot
           /\ q * LotValue(call.inst, call.price)
                 <= NotionalOf(call.inst, call.exposure)
           /\ NotionalOf(call.inst, call.exposure)
                 < (q + 1) * LotValue(call.inst, call.price)

\* leverage 10, capital 50000, price 2500, exposure -0.4, lot 1 gave -80
C12_Witness ==
    /\ call.fn = "calculate_target_units" /\ call.done
    /\ SizeInstruments[call.inst].leverage = 10
    /\ SizeInstruments[call.inst].per_symbol_capital = 50000
    /\ call.price = Num(250000)
    /\ call.exposure = -400
    /\ call.units = -80

\* C13: sizing never rounds up: for every instrument, exposure in [-1, 1]
\* and price > 0, |units| * price <= capital * leverage * |exposure|.
C13_NeverRoundsUp ==
    (call.fn = "calculate_target_units" /\ call.done
        /\ call.price \in ValidPrices) =>
       Abs(call.units) * (One \div PriceScale) * call.price.v
          <= NotionalOf(call.inst, call.exposure)

\* half of 100000 at 11.62 is 4302.9 shares, sized down to 4300
C13_Witness ==
    /\ call.fn = "calculate_target_units" /\ call.done
    /\ call.inst = 1
    /\ call.exposure = 500
    /\ call.price = Num(1162)
    /\ call.units = 4300

\* C14: for a fixed instrument and a fixed price > 0, the units are
\* non-decreasing in the exposure over exposures >= 0, and their magnitude
\* is non-decreasing in |exposure| over exposures <= 0.
C14_Monotone ==
    (call.fn = "size_pair" /\ call.done) =>
       /\ (0 <= call.e1 /\ call.e1 <= call.e2) => call.units1 <= call.units2
       /\ (call.e2 <= call.e1 /\ call.e1 <= 0)
             => Abs(call.units1) <= Abs(call.units2)

\* a short of 0.4 and a short of 1.0 were sized at the same price, and the
\* larger exposure got strictly more units
C14_Witness ==
    /\ call.fn = "size_pair" /\ call.done
    /\ call.e1 = -400 /\ call.e2 = -1000
    /\ Abs(call.units1) < Abs(call.units2)
    /\ call.units2 < 0

\* C15 as stated: the sign of the units equals the sign of the exposure,
\* and a zero exposure yields exactly 0 units for every price, valid or
\* not.
C15_SignEqual ==
    (call.fn = "calculate_target_units" /\ call.done) =>
       /\ ~call.raised
       /\ Sgn(call.units) = Sgn(call.exposure)

\* C15 amended: the units returned by sizing are 0 or have the sign of the
\* exposure (an exposure below one lot, or an invalid price, sizes to 0),
\* and a zero exposure yields exactly 0 units for every price that is
\* positive, non-positive or None; for a nan price int() raises
\* ValueError whatever the exposure, and no units are returned.
C15_SignNeverOpposite ==
    (call.fn = "calculate_target_units" /\ call.done) =>
       /\ call.raised <=> call.price = NaN
       /\ ~call.raised =>
             /\ call.units = 0 \/ Sgn(call.units) = Sgn(call.exposure)
             /\ call.exposure = 0 => call.units = 0
             /\ call.price \in InvalidPrices => call.units = 0

\* an exposure of 0.001 on the leveraged future at 2500 is 0.2 contracts
\* and was sized to 0 units
C15_Witness ==
    /\ call.fn = "calculate_target_units" /\ call.done
    /\ call.inst = 2
    /\ call.exposure = 1
    /\ call.price = Num(250000)
    /\ ~call.raised
    /\ call.units = 0

\* the stored record of symbol i (only where HasRecord)
Stored(pos, i) == pos[SYMBOLS[i].symbol]

\* an iteration over the long-only instrument idx, which holds a long
\* position, fetched a negative exposure and was not aborted by an
\* exception
NegativeOnLong ==
    /\ IsStep
    /\ ~SYMBOLS[idx].allow_short
    /\ HasRecord(positions, idx)
    /\ Stored(positions, idx).target_position > 0
    /\ Stored(positions, idx).current_units > 0
    /\ last'.fetched.kind = "num" /\ last'.fetched.v < 0
    /\ last'.outcome # "exception"

\* C16, first part: for a long-only instrument holding a long position, a
\* fetched negative exposure is suppressed to 0, classified as CloseLong
\* (not Unchanged) and drives the unit count to 0.
C16_ClosesLong ==
    [][NegativeOnLong =>
          /\ last'.target = 0
          /\ last'.action = "CloseLong"
          /\ Stored(positions', idx).current_units = 0]_vars

\* C16, second part: with capital 100000, leverage 1, lot size 100 and
\* price 10, the exposures 0.5, 0.5, -0.3, 0 fetched in consecutive runs
\* give the units 5000, 5000, 0, 0: the first opens the long, the second
\* leaves the record as it is, the third closes it, the fourth leaves it.
C16_Scenario ==
    [][(IsStep /\ idx = 1 /\ last'.outcome # "exception") =>
          /\ (~HasRecord(positions, 1) /\ last'.fetched = Num(500)
                 /\ last'.price = Num(1000))
                => /\ last'.action = "OpenLong"
                   /\ Stored(positions', 1).target_position = 500
                   /\ Stored(positions', 1).current_units = 5000
          /\ (HasRecord(positions, 1)
                 /\ Stored(positions, 1).target_position = 500
                 /\ Stored(positions, 1).current_units = 5000
                 /\ last'.fetched = Num(500))
                => /\ positions' = positions
                   /\ last'.outcome \in {"unchanged", "consistent"}
          /\ (HasRecord(positions, 1)
                 /\ Stored(positions, 1).target_position = 500
                 /\ Stored(positions, 1).current_units = 5000
                 /\ last'.fetched = Num(-300) /\ last'.price = Num(1000))
                => /\ last'.action = "CloseLong"
                   /\ Stored(positions', 1).target_position = 0
                   /\ Stored(positions', 1).current_units = 0
          /\ (HasRecord(positions, 1)
                 /\ Stored(positions, 1).target_position = 0
                 /\ Stored(positions, 1).current_units = 0
                 /\ last'.fetched = Num(0))
                => /\ positions' = positions
                   /\ last'.outcome \in {"unchanged", "consistent"}]_vars

\* C17: every kind of fetch error, a malformed response (a success reply
\* without the position field) included, skips the instrument for this
\* cycle and leaves the ledger unchanged; a malformed reply is never taken
\* for a target exposure of 0.
C17_MalformedSkipped ==
    [][(IsStep /\ last'.malformed) => positions' = positions]_vars

\* the values of pc inside a run over self.symbols
Loops == {"sync", "morning", "late"}

\* the indexes 1..n in list order
UpTo(n) == [k \in 1..n |-> k]

\* an iteration of the run in flight can be executed
IterationEnabled == ENABLED (SyncStep \/ MorningStep \/ LateStep)

\* C18: every run (sync_all_positions, check_and_sync_morning,
\* check_and_sync_late) terminates and attempts every configured instrument
\* exactly once, in list order, whatever subset of instruments fails:
\* inside a run the instruments before idx have been attempted once each,
\* in order, and the iteration over idx can be executed whatever the
\* service replies; every iteration attempts idx and either moves on to
\* idx + 1 or, after the last instrument, returns; so a run returns after
\* exactly NumSymbols iterations, having attempted all of them.
C18_RunsAttemptAll ==
    /\ [](pc \in Loops =>
            /\ idx \in 1..NumSymbols
            /\ attempted = UpTo(idx - 1)
            /\ IterationEnabled)
    /\ []((pc = "idle" /\ last.op \in Loops) => attempted = UpTo(NumSymbols))
    /\ [][IsStep =>
            /\ last'.sym = idx
            /\ IF idx < NumSymbols
               THEN pc' = pc /\ idx' = idx + 1
               ELSE pc' = "idle"]_vars

\* the first instrument of a scheduled run failed and the run is about to
\* attempt the second
C18_Witness ==
    /\ pc \in {"morning", "late"}
    /\ idx = 2
    /\ attempted = << 1 >>
    /\ last.sym = 1
    /\ last.outcome \in {"fetch_failed", "exception"}

\* C19: no two runs over the instrument set are in flight at the same
\* time: a run starts only when none is in flight, and the ledger is read
\* and written only by an iteration of the one run in flight.
C19_NoOverlap ==
    /\ [](in_flight \in {0, 1})
    /\ [](in_flight = 1 <=> pc \in Loops)
    /\ [][in_flight' > in_flight => (in_flight = 0 /\ pc \in {"init", "idle"})]_vars
    /\ [][positions' # positions => (IsStep /\ in_flight = 1)]_vars

\* a scheduled run is in flight after the startup sync has returned and
\* left a position in the ledger
C19_Witness ==
    /\ pc \in {"morning", "late"}
    /\ in_flight = 1
    /\ idx = 2
    /\ last.op \in {"morning", "late"}
    /\ \E i \in 1..NumSymbols :
          HasRecord(positions, i) /\ Stored(positions, i).current_units # 0

\* the reason strings a run hands to execute_position_adjustment
ReasonsOf(run) ==
    CASE run = "sync" -> { "startup(realtime) - realtime",
                           "startup(history) - history" }
      [] run = "morning" -> { "morning" }
      [] OTHER -> { "late" }

\* C20: when the action is not Unchanged, execute_position_adjustment
\* replaces target_position, current_units, position_type, last_update and
\* reason of the instrument's record in one step and changes nothing else:
\* allocated_capital keeps the value copied from the instrument when the
\* record was created, the descriptive fields of an existing record keep
\* their values, and no other instrument's record is modified.  (A call
\* that raises while sizing replaces nothing at all.)
C20_RecordReplaced ==
    [][(IsStep /\ last'.action \notin {"none", "Unchanged"}) =>
          /\ last'.outcome \in {"applied", "exception"}
          /\ last'.outcome = "exception" => positions' = positions
          /\ last'.outcome = "applied" =>
                /\ HasRecord(positions', idx)
                /\ Stored(positions', idx).target_position = last'.target
                /\ Stored(positions', idx).current_units =
                      calculate_target_units(SYMBOLS[idx], last'.target,
                                             last'.price).units
                /\ Stored(positions', idx).position_type
                      \in {"long", "short", "flat"}
                /\ Stored(positions', idx).last_update = clock
                /\ Stored(positions', idx).reason \in ReasonsOf(pc)
                /\ Stored(positions', idx).allocated_capital =
                      SYMBOLS[idx].per_symbol_capital
                /\ HasRecord(positions, idx) =>
                      /\ Stored(positions', idx).allocated_capital =
                            Stored(positions, idx).allocated_capital
                      /\ Stored(positions', idx).market_type =
                            Stored(positions, idx).market_type
                      /\ Stored(positions', idx).symbol_name =
                            Stored(positions, idx).symbol_name
                      /\ Stored(positions', idx).leverage =
                            Stored(positions, idx).leverage
                /\ \A j \in 1..NumSymbols \ {idx} :
                      RecOf(positions', j) = RecOf(positions, j)]_vars

\* the late check replaced the record of the leveraged future one tick
\* after startup, and the record of the other instrument still is the one
\* startup wrote
C20_Witness ==
    /\ last.op = "late" /\ last.sym = 2 /\ last.outcome = "applied"
    /\ HasRecord(positions, 2)
    /\ Stored(positions, 2).reason = "late"
    /\ Stored(positions, 2).last_update = 1
    /\ Stored(positions, 2).allocated_capital = 50000
    /\ HasRecord(positions, 1)
    /\ Stored(positions, 1).last_update = 0
    /\ Stored(positions, 1).reason \in ReasonsOf("sync")

\* C21: a position record is created on an instrument's first
\* reconciliation: after any reconciliation of instrument i whose fetch
\* succeeded (and that was not aborted by an exception), the ledger holds a
\* record for i, also when the first fetched exposure normalises to 0.
C21_RecordAfterFetch ==
    [][(IsStep /\ last'.fetched.kind # "None"
          /\ last'.outcome # "exception") => HasRecord(positions', idx)]_vars

\* what the claim expects of a constructed instrument: the value passed,
\* or else the value of its market type in the table
ExpectedAllowShort ==
    IF call.allow_short.given THEN call.allow_short.v
    ELSE init_market_config[call.market_type].allow_short

ExpectedLeverage ==
    IF call.leverage.given THEN call.leverage.v
    ELSE init_market_config[call.market_type].leverage

\* C22: the market-rules table only supplies defaults: an explicit
\* allow_short or leverage of the instrument is the value used for short
\* suppression and for sizing, and an instrument created without them
\* takes the allow_short and leverage of its market type from the table.
C22_TableDefaults ==
    (call.fn = "SymbolInfo" /\ call.done) =>
       /\ call.r_allow_short = ExpectedAllowShort
       /\ call.r_leverage = ExpectedLeverage
       /\ call.suppressed = (IF ExpectedAllowShort THEN -500 ELSE 0)
       /\ call.units =
             ((DefaultCapital * ExpectedLeverage * 500)
                 \div ((One \div PriceScale) * 1000
                         * init_market_config[call.market_type].min_lots))
               * init_market_config[call.market_type].min_lots

\* C23: an instrument whose market classification has no entry in the
\* market-rules table is rejected as a fatal configuration error at
\* startup; sizing never falls back to a default lot size for it.
C23_UnknownRejected ==
    (call.fn = "MultiMarketTrader" /\ call.done
        /\ \E i \in 1..Len(call.symbols) :
              call.symbols[i].market_type \notin DOMAIN init_market_config)
       => call.raised

\* C27: constructing the trader with a list in which some instruments
\* have no per_symbol_capital does not fail, gives each such instrument
\* the trader's default per_symbol_capital, and total_account_value is the
\* sum of all capitals after that defaulting.
C27_CapitalDefaulted ==
    (call.fn = "MultiMarketTrader" /\ call.done
        /\ \E i \in 1..Len(call.symbols) :
              call.symbols[i].per_symbol_capital.kind = "None")
       => /\ ~call.raised
          /\ Len(call.capitals) = Len(call.symbols)
          /\ \A i \in 1..Len(call.symbols) :
                call.capitals[i] =
                   IF call.symbols[i].per_symbol_capital.kind = "None"
                   THEN DefaultCapital
                   ELSE call.symbols[i].per_symbol_capital.v
          /\ call.total_account_value =
                SumCapital([i \in 1..Len(call.capitals) |->
                              [per_symbol_capital |-> Num(call.capitals[i])]])

\* C24: producing the summary report is read-only: the ledger (the set of
\* records and every field of each) is the same before and after
\* print_position_summary.
C24_SummaryReadOnly ==
    [][(last'.op = "summary" /\ last.op # "summary")
          => positions' = positions]_vars

\* the summary was printed over a ledger with an open and a flat record
C24_Witness ==
    /\ last.op = "summary"
    /\ \E i \in 1..NumSymbols :
          HasRecord(positions, i) /\ Stored(positions, i).current_units # 0
    /\ \E i \in 1..NumSymbols :
          HasRecord(positions, i) /\ Stored(positions, i).position_type = "flat"

\* C25: the main scheduling loop is entered only if the startup API test
\* passed: when test_all_apis fails, no startup sync runs and no scheduled
\* morning or late check is ever executed.  (latest_trading_date is
\* assigned, has_date, exactly when the test passed.)
C25_GatedByApiTest ==
    pc \in Loops => has_date

\* the exposure stored for symbol i: that of its record, or the 0 that
\* .get('target_position', 0) reads when there is none
StoredExposure(pos, i) ==
    IF HasRecord(pos, i) THEN Stored(pos, i).target_position ELSE 0

\* 0.001 in thousandths
Milli == One \div 1000

\* C26: a scheduled morning or late check updates an instrument's record
\* only when the normalised fetched exposure differs from the stored one by
\* more than 0.001; and after a scheduled check whose fetch succeeded and
\* that did not raise, the stored exposure differs from the normalised
\* fetched exposure by at most 0.001.
C26_Tolerance ==
    [][(IsStep /\ pc \in {"morning", "late"}) =>
          /\ positions' # positions =>
                Abs(last'.target - StoredExposure(positions, idx)) > Milli
          /\ (last'.fetched.kind # "None" /\ last'.outcome # "exception") =>
                Abs(StoredExposure(positions', idx) - last'.target) <= Milli]_vars

\* a scheduled check found the fetched exposure within 0.001 of a different
\* stored exposure and left the record alone
C26_Witness ==
    /\ last.op \in {"morning", "late"}
    /\ last.outcome = "consistent"
    /\ HasRecord(positions, last.sym)
    /\ StoredExposure(positions, last.sym) # last.target
    /\ Abs(StoredExposure(positions, last.sym) - last.target) <= Milli

\* C28: in every reachable ledger the unit count never has the opposite
\* sign of the target exposure: target_position > 0 implies current_units
\* >= 0, target_position < 0 implies current_units <= 0, and
\* target_position = 0 implies current_units = 0.
C28_UnitsFollowTarget ==
    \A i \in 1..NumSymbols :
       HasRecord(positions, i) =>
          /\ Stored(positions, i).target_position > 0
                => Stored(positions, i).current_units >= 0
          /\ Stored(positions, i).target_position < 0
                => Stored(positions, i).current_units <= 0
          /\ Stored(positions, i).target_position = 0
                => Stored(positions, i).current_units = 0

\* the ledger holds a short with negative units and a position that a
\* scheduled check closed
C28_Witness ==
    /\ \E i \in 1..NumSymbols :
          /\ HasRecord(positions, i)
          /\ Stored(positions, i).target_position < 0
          /\ Stored(positions, i).current_units < 0
    /\ \E i \in 1..NumSymbols :
          /\ HasRecord(positions, i)
          /\ Stored(positions, i).target_position = 0
          /\ Stored(positions, i).current_units = 0
          /\ Stored(positions, i).reason \in {"morning", "late"}

\* current_pos['current_units'] of symbol i before an adjustment
OldUnits(pos, i) == positions_get(pos, SYMBOLS[i]).current_units

\* the direction logged by the adjustment of the step, given that it
\* changed the unit count
LoggedDirection ==
    trade_direction(Stored(positions', idx).current_units
                       - OldUnits(positions, idx),
                    last'.target, OldUnits(positions, idx))

\* C30: whenever an adjustment changes the unit count, the reported trade
\* direction matches the sign of the unit delta and the side traded: a buy
\* label if and only if target_units - old_units > 0, a sell label if and
\* only if the delta is < 0; an open label names the side of the new
\* position and a close label the side of the old one.
C30_DirectionMatchesDelta ==
    [][(IsStep /\ last'.outcome = "applied"
          /\ Stored(positions', idx).current_units # OldUnits(positions, idx))
        => LET delta == Stored(positions', idx).current_units
                           - OldUnits(positions, idx)
           IN  /\ LoggedDirection \in {"BuyOpenLong", "BuyCloseShort"}
                     <=> delta > 0
               /\ LoggedDirection \in {"SellCloseLong", "SellOpenShort"}
                     <=> delta < 0
               /\ LoggedDirection = "BuyOpenLong" => last'.target > 0
               /\ LoggedDirection = "SellOpenShort" => last'.target < 0
               /\ LoggedDirection = "SellCloseLong"
                     => OldUnits(positions, idx) > 0
               /\ LoggedDirection = "BuyCloseShort"
                     => OldUnits(positions, idx) < 0]_vars


\* ------------------------------------------------------------------------
\* C29
\* ------------------------------------------------------------------------

\* the multi-market action an A-share action corresponds to
CorrespondingAction(a_action) ==
    CASE a_action = "Open" -> "OpenLong"
      [] a_action = "Close" -> "CloseLong"
      [] a_action = "Increase" -> "IncreaseLong"
      [] a_action = "Decrease" -> "DecreaseLong"
      [] a_action = "Hold" -> "Unchanged"
      [] OTHER -> a_action

\* C29: run side by side on the same sequence of fetched exposures and
\* prices, the A-share trader and the multi-market trader restricted to
\* one long-only stock (capital = account_value, leverage 1, lot 100) hold
\* a record for the same symbols, with the same target exposure and the
\* same share/unit count, after every step; each step ends the same way in
\* both (skipped, consistent, unchanged, aborted or applied), and the
\* actions correspond (Open = OpenLong, Close = CloseLong,
\* Increase = IncreaseLong, Decrease = DecreaseLong, Hold = Unchanged).
C29_Equivalent ==
    call.fn = "pair" =>
      /\ DOMAIN call.a_positions = DOMAIN positions
      /\ \A s \in DOMAIN positions :
           /\ call.a_positions[s].target_position
                = positions[s].target_position
           /\ call.a_positions[s].current_shares
                = positions[s].current_units
      /\ call.a_outcome = call.m_outcome
      /\ CorrespondingAction(call.a_action) = call.m_action

\* after an opening and an increase, a third step decreases the holding:
\* both traders hold the same non-zero number of shares
C29_Witness ==
    /\ call.fn = "pair"
    /\ call.steps = 3
    /\ call.a_action = "Decrease"
    /\ call.m_action = "DecreaseLong"
    /\ call.a_outcome = "applied"
    /\ PairSymbol \in DOMAIN positions
    /\ positions[PairSymbol].current_units > 0
    /\ call.a_positions[PairSymbol].current_shares
         = positions[PairSymbol].current_units

====
